---- MODULE Spec2Model ----
(***************************************************************************)
(* Model of commands.py: the VirtualenvManager singleton (activation       *)
(* stack, PATH / VIRTUAL_ENV bookkeeping, settings reactivity) and the     *)
(* optional LSP notification path (OptionalPluginHandler and friends).     *)
(*                                                                         *)
(* Representation of Python values                                         *)
(*   Optional[x]   None is <<>>, a present value x is <<x>>.               *)
(*   str (a path)  a TLA+ string; os.path.join is string concatenation     *)
(*                 with the platform's separator.                          *)
(*   PATH          a str that the code splits and joins, so it is kept as  *)
(*                 the sequence of its tokens: a token is either a         *)
(*                 separator character (":" or ";"), a blank (" "), or a   *)
(*                 maximal run of other characters (one directory name).   *)
(*                 "a:b" is <<"a", ":", "b">>, "" is <<>>.                 *)
(***************************************************************************)
EXTENDS Integers, Sequences, FiniteSets, TLC

VARIABLES
    platform,          \* sublime.platform(): "osx", "linux" or "win"
    PATH,              \* os.environ.get("PATH"): Optional[token sequence]
    VIRTUAL_ENV,       \* os.environ.get("VIRTUAL_ENV"): Optional[str]
    _activated_envs,   \* VirtualenvManager._activated_envs
    _log_level,        \* VirtualenvManager._log_level: Optional[str]
    _LSP_plugin,       \* VirtualenvManager._LSP_plugin: Optional[str]
    sys_modules,       \* the required members importable from sys.modules
    handlers,          \* the OptionalPluginHandler singletons and their caches
    call,              \* the last operation invoked and its arguments
    outcome,           \* what that operation did that the host can observe
    command,           \* the window's ActivateVirtualenvCommand: _venvs, panel shown
    marks,             \* history: environment before each activation on the stack
    initial_PATH       \* history: os.environ.get("PATH") when the manager was constructed

vars == <<platform, PATH, VIRTUAL_ENV, _activated_envs, _log_level, _LSP_plugin,
          sys_modules, handlers, call, outcome, command, marks, initial_PATH>>

(***************************************************************************)
(* Bounds of the model.                                                    *)
(***************************************************************************)
\* Activations are refused by the model (not by the code) beyond this depth.
MaxDepth == 3
\* Number of entries of the PATH the process starts with.
MaxPathLen == 1
\* Activations are refused by the model (not by the code) once PATH holds this
\* many tokens (entries and separators).
MaxPathSize == 5

None == <<>>
Some(x) == <<x>>

Last(s) == s[Len(s)]
Front(s) == SubSeq(s, 1, Len(s) - 1)

(***************************************************************************)
(* Platform facts.                                                         *)
(***************************************************************************)
Platforms == {"osx", "linux", "win"}

\* "osx" and "linux" differ in nothing the code below reads; the model runs
\* one POSIX host and the Windows host
HostPlatforms == {"linux", "win"}

\* os.pathsep and os.sep of the interpreter the host embeds
os_pathsep(plat) == IF plat = "win" THEN ";" ELSE ":"
os_sep(plat) == IF plat = "win" THEN "\\" ELSE "/"

\* os.path.join(a, b) for a relative b and an a without a trailing separator
os_path_join(plat, a, b) == a \o os_sep(plat) \o b

(***************************************************************************)
(* str.strip, str.split and str.join on token sequences.                   *)
(***************************************************************************)
RECURSIVE LStrip(_)
LStrip(s) == IF s # <<>> /\ Head(s) = " " THEN LStrip(Tail(s)) ELSE s

RECURSIVE RStrip(_)
RStrip(s) == IF s # <<>> /\ Last(s) = " " THEN RStrip(Front(s)) ELSE s

\* s.strip()
Strip(s) == RStrip(LStrip(s))

\* s.split(sep): always at least one item; "".split(sep) is [""]
RECURSIVE SplitFrom(_, _, _)
SplitFrom(s, sep, cur) ==
    IF s = <<>> THEN <<cur>>
    ELSE IF Head(s) = sep THEN <<cur>> \o SplitFrom(Tail(s), sep, <<>>)
    ELSE SplitFrom(Tail(s), sep, Append(cur, Head(s)))

Split(s, sep) == SplitFrom(s, sep, <<>>)

\* sep.join(items)
RECURSIVE Join(_, _)
Join(items, sep) ==
    IF items = <<>> THEN <<>>
    ELSE IF Len(items) = 1 THEN items[1]
    ELSE items[1] \o <<sep>> \o Join(Tail(items), sep)

\* a directory name as a str: a single token
Str(p) == <<p>>

\* list.insert(0, x) and del list[i]
Insert0(items, x) == <<x>> \o items
Del(items, i) == SubSeq(items, 1, i - 1) \o SubSeq(items, i + 1, Len(items))

\* index of the first item equal to x, 0 if there is none (the enumerate loop)
FirstIndex(items, x) ==
    IF \E i \in 1..Len(items) : items[i] = x
    THEN CHOOSE i \in 1..Len(items) :
            items[i] = x /\ \A j \in 1..(i - 1) : items[j] # x
    ELSE 0

(***************************************************************************)
(* VirtualenvManager: static helpers.                                      *)
(***************************************************************************)
\* `sublime.platform == "win"` compares the function object itself with a
\* string, which is False on every platform.
PlatformIsWin(plat) == FALSE

get_bin_path(plat, venv_path) ==
    os_path_join(plat, venv_path, IF PlatformIsWin(plat) THEN "Scripts" ELSE "bin")

get_python_path(plat, venv_bin_path) == os_path_join(plat, venv_bin_path, "python")

\* The items add_to_PATH and remove_first_occurrence_in_PATH work on, or None
\* when PATH is unset or blank.
current_path_items(path) ==
    IF path # None /\ Strip(path[1]) # <<>>
    THEN Some(Split(Strip(path[1]), ":"))
    ELSE None

\* add_to_PATH: [PATH |-> os.environ PATH afterwards, ret |-> returned bool]
add_to_PATH(plat, path, path_to_add) ==
    LET read == current_path_items(path)
        items == IF read = None THEN <<>> ELSE read[1]
    IN IF Len(items) = 0 \/ items[1] # Str(path_to_add)
       THEN [PATH |-> Some(Join(Insert0(items, Str(path_to_add)), os_pathsep(plat))),
             ret |-> TRUE]
       ELSE [PATH |-> path, ret |-> FALSE]

\* remove_first_occurrence_in_PATH: same shape of result
remove_first_occurrence_in_PATH(plat, path, path_to_remove) ==
    LET read == current_path_items(path)
        items == IF read = None THEN <<>> ELSE read[1]
        index == FirstIndex(items, Str(path_to_remove))
    IN IF read # None /\ index # 0
       THEN [PATH |-> Some(Join(Del(items, index), os_pathsep(plat))), ret |-> TRUE]
       ELSE [PATH |-> path, ret |-> FALSE]

(***************************************************************************)
(* Settings: validation.  A settings value is [type, value]: its Python    *)
(* type name and its text; settings.get of a missing key is NoneValue.     *)
(***************************************************************************)
StrValue(v) == [type |-> "str", value |-> v]
NoneValue == [type |-> "NoneType", value |-> ""]

valid_LSP_plugins == {"LSP-pyright", "LSP-basedpyright", "None"}
\* Mutant of valid_log_levels: NOTSET is accepted too
valid_log_levels_with_NOTSET == {"NOTSET", "DEBUG", "INFO", "WARNING", "ERROR", "CRITICAL"}

valid_log_levels == {"DEBUG", "INFO", "WARNING", "ERROR", "CRITICAL"}

\* logging._nameToLevel and logging._levelToName
logging_nameToLevel(name) ==
    CASE name = "CRITICAL" -> 50
      [] name = "FATAL" -> 50
      [] name = "ERROR" -> 40
      [] name = "WARN" -> 30
      [] name = "WARNING" -> 30
      [] name = "INFO" -> 20
      [] name = "DEBUG" -> 10
      [] name = "NOTSET" -> 0

logging_levelToName(level) ==
    CASE level = 50 -> "CRITICAL"
      [] level = 40 -> "ERROR"
      [] level = 30 -> "WARNING"
      [] level = 20 -> "INFO"
      [] level = 10 -> "DEBUG"
      [] level = 0 -> "NOTSET"

\* logging._levelToName[logging._nameToLevel[level]]
NormalizeLevel(level) == logging_levelToName(logging_nameToLevel(level))

\* validate_LSP_plugin: [ret |-> Optional[str], warned |-> logger.warning issued]
validate_LSP_plugin(LSP_plugin) ==
    IF LSP_plugin.type = "str" /\ LSP_plugin.value = "None"
    THEN [ret |-> None, warned |-> FALSE]
    ELSE IF LSP_plugin.type = "str" /\ LSP_plugin.value \in valid_LSP_plugins
    THEN [ret |-> Some(LSP_plugin.value), warned |-> FALSE]
    ELSE [ret |-> None, warned |-> TRUE]

\* validate_log_level
validate_log_level(level) ==
    IF level.type = "str" /\ level.value \in valid_log_levels
    THEN [ret |-> Some(NormalizeLevel(level.value)), warned |-> FALSE]
    ELSE [ret |-> None, warned |-> TRUE]

(***************************************************************************)
(* Optional plugin handlers.                                               *)
(***************************************************************************)
LSP_windows == "LSP.plugin.core.registry.windows"
LSP_Notification == "LSP.plugin.core.protocol.Notification"
Pyright_member == "LSP-pyright.plugin.LspPyrightCreateConfigurationCommand"
Basedpyright_member == "LSP-basedpyright.plugin.LspBasedpyrightCreateConfigurationCommand"

\* every module member some handler requires
Members == {LSP_windows, LSP_Notification, Pyright_member, Basedpyright_member}

\* LSPPluginHandler.required_members
LSPPluginHandler_required_members == {LSP_windows, LSP_Notification}

\* LSP_pythonPluginHandler.required_members
LSP_pythonPluginHandler_required_members(plugin) ==
    IF plugin = "LSP-pyright" THEN {Pyright_member}
    ELSE IF plugin = "LSP-basedpyright" THEN {Basedpyright_member}
    ELSE {}

\* No handler constructed, nothing cached.  _cached_classes maps a key to
\* "absent" (no such key), "None" (looked up and not found) or "class".
NoHandlers ==
    [LSPPluginHandler |-> None,
     LSP_pythonPluginHandler |-> None,
     _cached_classes |-> [k \in Members |-> "absent"]]

\* Mutant of OptionalPluginHandler_is_plugin_available: the registry is read
\* on every evaluation
OptionalPluginHandler_is_plugin_available_uncached(h, cached, required, mods) ==
    [h |-> [h EXCEPT !._is_available = Some(required \subseteq mods)],
     cached |-> [k \in Members |->
                   IF k \in required
                   THEN (IF k \in mods THEN "class" ELSE "None")
                   ELSE cached[k]],
     ret |-> required \subseteq mods]

\* OptionalPluginHandler.is_plugin_available, the property, on handler
\* instance h: [h, cached, ret].  The registry is read only while
\* _is_available is still None.
OptionalPluginHandler_is_plugin_available(h, cached, required, mods) ==
    IF h._is_available = None
    THEN [h |-> [h EXCEPT !._is_available = Some(required \subseteq mods)],
          cached |-> [k \in Members |->
                        IF k \in required
                        THEN (IF k \in mods THEN "class" ELSE "None")
                        ELSE cached[k]],
          ret |-> required \subseteq mods]
    ELSE [h |-> h, cached |-> cached, ret |-> h._is_available[1]]

\* LSPPluginHandler(): OptionalPluginHandler.__new__ creates the singleton on
\* first use and _initialize evaluates the property once.
LSPPluginHandler_new(hs, mods) ==
    IF hs.LSPPluginHandler = None
    THEN LET r == OptionalPluginHandler_is_plugin_available(
                      [_is_available |-> None], hs._cached_classes,
                      LSPPluginHandler_required_members, mods)
         IN [hs EXCEPT !.LSPPluginHandler = Some(r.h), !._cached_classes = r.cached]
    ELSE hs

\* LSP_pythonPluginHandler(plugin): __new__ creates the singleton on first use;
\* its _initialize only mentions self.is_plugin_available, which this class
\* overrides with a plain method, so nothing is evaluated; __init__ then stores
\* the plugin name on every construction and leaves _is_available alone.
LSP_pythonPluginHandler_new(hs, plugin) ==
    [hs EXCEPT !.LSP_pythonPluginHandler =
        IF hs.LSP_pythonPluginHandler = None
        THEN Some([_LSP_plugin |-> plugin, _is_available |-> None])
        ELSE Some([hs.LSP_pythonPluginHandler[1] EXCEPT !._LSP_plugin = plugin])]

\* LSP_pythonPluginHandler.is_plugin_available(), the method, on the
\* constructed singleton: [handlers, ret].  `and` does not evaluate the
\* handler's own property when the LSP host is not available.
LSP_pythonPluginHandler_is_plugin_available(hs, mods) ==
    LET py == hs.LSP_pythonPluginHandler[1]
    IN IF py._LSP_plugin = "None"
       THEN [handlers |-> hs, ret |-> FALSE]
       ELSE LET hs1 == LSPPluginHandler_new(hs, mods)
                lsp == OptionalPluginHandler_is_plugin_available(
                           hs1.LSPPluginHandler[1], hs1._cached_classes,
                           LSPPluginHandler_required_members, mods)
                own == OptionalPluginHandler_is_plugin_available(
                           py, lsp.cached,
                           LSP_pythonPluginHandler_required_members(py._LSP_plugin), mods)
            IN IF ~lsp.ret
               THEN [handlers |-> [hs1 EXCEPT !.LSPPluginHandler = Some(lsp.h),
                                              !._cached_classes = lsp.cached],
                     ret |-> FALSE]
               ELSE [handlers |-> [hs1 EXCEPT !.LSPPluginHandler = Some(lsp.h),
                                              !.LSP_pythonPluginHandler = Some(own.h),
                                              !._cached_classes = own.cached],
                     ret |-> own.ret]

\* get_cached_class(...) is not None
get_cached_class(hs, key) == hs._cached_classes[key] = "class"

\* The test `if lsp_pyright_plugin_handler.is_plugin_available:` of notify_LSP.
\* LSP_pythonPluginHandler.is_plugin_available is a method, not a property, and
\* the test does not call it: a bound method is always true.
notify_LSP_test(hs, mods) == TRUE

\* The configuration-update event reconfigure_lsp_pyright sends
Notification(python_path) ==
    [method |-> "workspace/didChangeConfiguration", pythonPath |-> python_path]

\* reconfigure_lsp_pyright(plugin, python_path), with get_lsp_session and
\* send_did_change_configuration inlined.  session: LSP_windows.lookup found
\* the window's context and its get_session found the plugin's session.
reconfigure_lsp_pyright(hs, mods, python_path, session) ==
    LET hs1 == LSPPluginHandler_new(hs, mods)
    IN IF ~get_cached_class(hs1, LSP_windows)
       THEN [handlers |-> hs1, sent |-> <<>>, raised |-> Some("RuntimeError")]
       ELSE IF ~session
       THEN [handlers |-> hs1, sent |-> <<>>, raised |-> None]
       ELSE IF ~get_cached_class(hs1, LSP_Notification)
       THEN [handlers |-> hs1, sent |-> <<>>, raised |-> Some("RuntimeError")]
       ELSE [handlers |-> hs1, sent |-> <<Notification(python_path)>>, raised |-> None]

\* notify_LSP(pythonPath): [handlers, sent, raised]
notify_LSP(plugin, hs, mods, pythonPath, session) ==
    IF plugin = None
    THEN [handlers |-> hs, sent |-> <<>>, raised |-> None]
    ELSE LET hs1 == LSP_pythonPluginHandler_new(hs, plugin[1])
         IN IF notify_LSP_test(hs1, mods)
            THEN reconfigure_lsp_pyright(hs1, mods, pythonPath, session)
            ELSE [handlers |-> hs1, sent |-> <<>>, raised |-> None]

\* A session named after a plugin exists only once that plugin's package is
\* loaded: the LSP host starts it for the plugin.
SessionPossible(plugin, mods) ==
    plugin # None /\ LSP_pythonPluginHandler_required_members(plugin[1]) \subseteq mods

(***************************************************************************)
(* Inputs of the model.                                                    *)
(***************************************************************************)
\* Descriptors the quick panel can hand to activate_virtualenv
Envs == {"a", "b"}
Dirs == {"/envs"}
Venvs == [env : Envs, dir : Dirs]

\* Values the settings file can hold
LogLevelSettings == {StrValue("INFO"), StrValue("debug")}
LSPPluginSettings == {StrValue("LSP-pyright"), StrValue("None"), NoneValue}

\* The members that can become importable while the editor runs: those of the
\* LSP host and of the plugins LSPPluginSettings can select
ImportableMembers == {LSP_windows, LSP_Notification, Pyright_member}

\* The process environment the editor was started with
InitPathEntries(plat) ==
    {"/usr/bin", get_bin_path(plat, os_path_join(plat, "/envs", "a"))}
InitPaths ==
    [plat \in Platforms |->
        {None} \cup
        {Some(Join([i \in 1..Len(f) |-> Str(f[i])], os_pathsep(plat))) :
            f \in UNION {[1..n -> InitPathEntries(plat)] : n \in 0..MaxPathLen}}]
InitVirtualEnvs == {None, Some("/opt/venv")}

(***************************************************************************)
(* What one operation shows to the host: the exception that left it, the   *)
(* arguments notify_LSP was called with, the events sent to the LSP        *)
(* session, the error dialog, the status message, the settings warned      *)
(* about.                                                                  *)
(***************************************************************************)
NoOutcome ==
    [raised |-> None, notify_LSP |-> <<>>, sent |-> <<>>,
     error_message |-> None, status_message |-> None, warnings |-> <<>>]

\* found: for activate_virtualenv, os.path.exists(venv_path); for
\* deactivate_virtualenv, there was a record to pop
Call(name, selected_venv, found) ==
    [name |-> name, selected_venv |-> selected_venv, found |-> found]

\* The settings listener ran with the settings object holding these values
SettingsCall(level, LSP_plugin) ==
    [name |-> "on_settings_changed", selected_venv |-> None, found |-> FALSE,
     log_level |-> level, LSP_plugin |-> LSP_plugin]

\* The command object before its first run: the class-level _venvs = None,
\* no quick panel shown
NoCommand == [_venvs |-> None, panel_items |-> None]

\* Number of tokens of PATH
PathSize(path) == IF path = None THEN 0 ELSE Len(path[1])

\* Python truthiness of an Optional[str]
Truthy(opt) == opt # None /\ opt[1] # ""

(***************************************************************************)
(* History of the activations on the stack: marks is parallel to           *)
(* _activated_envs.  A mark keeps PATH and VIRTUAL_ENV as they were right  *)
(* before the record was pushed.                                           *)
(*   after_activate  the call before the push was a successful activation  *)
(*   down            a deactivate_virtualenv has run since                 *)
(*   broken          the calls since are not activations followed by       *)
(*                   deactivations only                                    *)
(***************************************************************************)
Mark(path, venv, after_activate, broken) ==
    [PATH |-> path, VIRTUAL_ENV |-> venv, after_activate |-> after_activate,
     down |-> FALSE, broken |-> broken]

MarksOnActivate(ms) == [i \in 1..Len(ms) |-> [ms[i] EXCEPT !.broken = @ \/ ms[i].down]]
MarksOnDeactivate(ms) == [i \in 1..(Len(ms) - 1) |-> [ms[i] EXCEPT !.down = TRUE]]
MarksOnOther(ms) == [i \in 1..Len(ms) |-> [ms[i] EXCEPT !.broken = TRUE]]

(***************************************************************************)
(* VirtualenvManager._initialize and on_settings_changed.                  *)
(***************************************************************************)
\* `new_log_level is not logging.NOTSET` compares a str with the int 0
IsNotNOTSET(new_log_level) == TRUE

\* Mutant of on_settings_changed_log_level: the validator's result is stored
\* whatever it is
on_settings_changed_log_level_applied(current, level) == validate_log_level(level).ret

\* The log level after on_settings_changed read `level` (lines 170-174 and
\* handle_log_level_change)
on_settings_changed_log_level(current, level) ==
    LET new_log_level == validate_log_level(level).ret
    IN IF Truthy(new_log_level) /\ new_log_level # current /\ IsNotNOTSET(new_log_level)
       THEN new_log_level
       ELSE current

\* Whether on_settings_changed calls handle_LSP_plugin_change (lines 176-177)
LSP_plugin_changes(current, LSP_plugin) ==
    LET new_LSP_plugin == validate_LSP_plugin(LSP_plugin).ret
    IN Truthy(new_LSP_plugin) /\ new_LSP_plugin # current

\* The selected plugin after on_settings_changed read `LSP_plugin`
on_settings_changed_LSP_plugin(current, LSP_plugin) ==
    IF LSP_plugin_changes(current, LSP_plugin)
    THEN validate_LSP_plugin(LSP_plugin).ret
    ELSE current

\* The settings the two validators warned about, in call order
SettingsWarnings(level, LSP_plugin) ==
    (IF validate_log_level(level).warned THEN <<"log_level">> ELSE <<>>) \o
    (IF validate_LSP_plugin(LSP_plugin).warned THEN <<"LSP_plugin">> ELSE <<>>)

\* Mutant of InitialStack: the inherited VIRTUAL_ENV is not recorded
InitialStack_empty(venv) == <<>>

\* The stack _initialize builds from the inherited VIRTUAL_ENV (lines 78-86)
InitialStack(venv) ==
    IF venv # None
    THEN <<[env |-> None, added_path |-> None, VIRTUAL_ENV |-> venv[1]]>>
    ELSE <<>>

\* State after plugin_loaded() constructed the singleton.  _initialize runs
\* on_settings_changed while _activated_envs is still the empty class-level
\* list, so handle_LSP_plugin_change returns before notifying.
InitFrom(plats, levels, plugins, paths, venvs, mods) ==
    \E plat \in plats, level \in levels, plugin \in plugins :
      \E path \in paths[plat], venv \in venvs :
        /\ platform = plat
        /\ PATH = path
        /\ VIRTUAL_ENV = venv
        /\ _log_level = on_settings_changed_log_level(None, level)
        /\ _LSP_plugin = on_settings_changed_LSP_plugin(None, plugin)
        /\ _activated_envs = InitialStack(venv)
        /\ sys_modules \in mods
        /\ handlers = NoHandlers
        /\ command = NoCommand
        /\ initial_PATH = path
        /\ call = Call("VirtualenvManager", None, FALSE)
        /\ outcome = [NoOutcome EXCEPT !.warnings = SettingsWarnings(level, plugin)]
        /\ marks = [i \in 1..Len(InitialStack(venv)) |->
                       Mark(path, venv, FALSE, TRUE)]

\* on_settings_changed(), the settings object now holding log_level and
\* LSP_plugin
on_settings_changed(level, LSP_plugin, session) ==
    LET changes == LSP_plugin_changes(_LSP_plugin, LSP_plugin)
        new_plugin == on_settings_changed_LSP_plugin(_LSP_plugin, LSP_plugin)
        \* handle_LSP_plugin_change (lines 196-205)
        notifies == changes /\ Len(_activated_envs) # 0
        pythonPath == get_python_path(platform,
                          get_bin_path(platform, Last(_activated_envs).VIRTUAL_ENV))
        n == notify_LSP(new_plugin, handlers, sys_modules, pythonPath,
                        session /\ SessionPossible(new_plugin, sys_modules))
    IN /\ _log_level' = on_settings_changed_log_level(_log_level, level)
       /\ _LSP_plugin' = new_plugin
       /\ handlers' = IF notifies THEN n.handlers ELSE handlers
       /\ call' = SettingsCall(level, LSP_plugin)
       /\ outcome' = [NoOutcome EXCEPT
                        !.warnings = SettingsWarnings(level, LSP_plugin),
                        !.raised = IF notifies THEN n.raised ELSE None,
                        !.notify_LSP = IF notifies THEN <<pythonPath>> ELSE <<>>,
                        !.sent = IF notifies THEN n.sent ELSE <<>>]
       /\ marks' = MarksOnOther(marks)
       /\ UNCHANGED <<platform, PATH, VIRTUAL_ENV, _activated_envs, sys_modules, command, initial_PATH>>

(***************************************************************************)
(* activate_virtualenv.                                                    *)
(***************************************************************************)
\* PATH after the removal of the previous activation's entry (lines 269-274)
activate_remove_old(plat, stack, path, venv_bin_path) ==
    IF Len(stack) > 0
       /\ Truthy(Last(stack).added_path)
       /\ Last(stack).added_path[1] # venv_bin_path
    THEN remove_first_occurrence_in_PATH(plat, path, Last(stack).added_path[1]).PATH
    ELSE path

\* The record pushed (lines 276-289): added_path is set when add_to_PATH added
activate_record(env, venv_path, venv_bin_path, was_added) ==
    [env |-> Some(env),
     VIRTUAL_ENV |-> venv_path,
     added_path |-> IF was_added THEN Some(venv_bin_path) ELSE None]

\* Lines 263-299
activate_Found(selected_venv, session) ==
    LET venv_path == os_path_join(platform, selected_venv.dir, selected_venv.env)
        venv_bin_path == get_bin_path(platform, venv_path)
        removed == activate_remove_old(platform, _activated_envs, PATH, venv_bin_path)
        added == add_to_PATH(platform, removed, venv_bin_path)
        pythonPath == get_python_path(platform, venv_bin_path)
        n == notify_LSP(_LSP_plugin, handlers, sys_modules, pythonPath,
                        session /\ SessionPossible(_LSP_plugin, sys_modules))
    IN /\ Len(_activated_envs) < MaxDepth
       /\ PathSize(PATH) < MaxPathSize
       /\ PATH' = added.PATH
       /\ VIRTUAL_ENV' = Some(venv_path)
       /\ _activated_envs' =
              Append(_activated_envs,
                     activate_record(selected_venv.env, venv_path, venv_bin_path,
                                     added.ret))
       /\ handlers' = n.handlers
       /\ outcome' = [NoOutcome EXCEPT
                        !.raised = n.raised,
                        !.notify_LSP = <<pythonPath>>,
                        !.sent = n.sent,
                        !.status_message =
                            IF n.raised = None
                            THEN Some("Activated virtualenv: " \o selected_venv.env)
                            ELSE None]
       /\ marks' = Append(MarksOnActivate(marks),
                          Mark(PATH, VIRTUAL_ENV,
                               call.name = "activate_virtualenv" /\ call.found,
                               FALSE))

\* Mutant of activate_NotFound: the `return` after the error dialog is missing
activate_NotFound_noreturn(selected_venv) == activate_Found(selected_venv, FALSE)

\* Lines 259-261: the error dialog, and nothing else
activate_NotFound(selected_venv) ==
    LET venv_path == os_path_join(platform, selected_venv.dir, selected_venv.env)
    IN /\ outcome' = [NoOutcome EXCEPT !.error_message = Some(venv_path)]
       /\ marks' = MarksOnOther(marks)
       /\ UNCHANGED <<PATH, VIRTUAL_ENV, _activated_envs, handlers>>

\* activate_virtualenv(selected_venv); exists: os.path.exists(venv_path)
activate_virtualenv(selected_venv, exists, session) ==
    /\ call' = Call("activate_virtualenv", Some(selected_venv), exists)
    /\ IF ~exists
       THEN activate_NotFound(selected_venv)
       ELSE activate_Found(selected_venv, session)
    /\ UNCHANGED <<platform, _log_level, _LSP_plugin, sys_modules, command, initial_PATH>>

(***************************************************************************)
(* deactivate_virtualenv.                                                  *)
(***************************************************************************)
\* PATH after the removal of the popped record's entry (lines 330-332)
deactivate_remove_added(plat, popped, path) ==
    IF Truthy(popped.added_path)
    THEN remove_first_occurrence_in_PATH(plat, path, popped.added_path[1]).PATH
    ELSE path

\* Mutant of deactivate_VIRTUAL_ENV: the variable is cleared on every pop
deactivate_VIRTUAL_ENV_cleared(rest) == None

\* VIRTUAL_ENV after the pop left `rest` on the stack (lines 334-340)
deactivate_VIRTUAL_ENV(rest) ==
    IF Len(rest) > 0 THEN Some(Last(rest).VIRTUAL_ENV) ELSE None

\* Whether the new top's entry is re-added (line 343)
deactivate_readds(rest) == Len(rest) > 0 /\ Truthy(Last(rest).added_path)

\* PATH after the re-add of the new top's entry (lines 342-344)
deactivate_restore_PATH(plat, rest, path) ==
    IF deactivate_readds(rest)
    THEN add_to_PATH(plat, path, Last(rest).added_path[1]).PATH
    ELSE path

\* The stack after the re-add: the new top forgets an entry add_to_PATH did
\* not add (lines 345-346)
deactivate_restore_stack(plat, rest, path) ==
    IF deactivate_readds(rest) /\ ~add_to_PATH(plat, path, Last(rest).added_path[1]).ret
    THEN [rest EXCEPT ![Len(rest)].added_path = None]
    ELSE rest

\* The interpreter path handed to notify_LSP (line 349)
deactivate_pythonPath(plat, rest) ==
    IF Len(rest) > 0
    THEN get_python_path(plat, get_bin_path(plat, Last(rest).VIRTUAL_ENV))
    ELSE ""

\* Mutant of deactivate_Empty: the emptiness test is missing and list.pop raises
deactivate_Empty_noguard ==
    /\ outcome' = [NoOutcome EXCEPT !.raised = Some("IndexError")]
    /\ marks' = MarksOnOther(marks)
    /\ UNCHANGED <<PATH, VIRTUAL_ENV, _activated_envs, handlers>>

\* Lines 315-317: a debug line, and nothing else
deactivate_Empty ==
    /\ outcome' = NoOutcome
    /\ marks' = MarksOnOther(marks)
    /\ UNCHANGED <<PATH, VIRTUAL_ENV, _activated_envs, handlers>>

\* Lines 319-356
deactivate_Pop(session) ==
    LET env_to_be_deactivated == Last(_activated_envs)
        rest == Front(_activated_envs)
        removed == deactivate_remove_added(platform, env_to_be_deactivated, PATH)
        pythonPath == deactivate_pythonPath(platform, rest)
        n == notify_LSP(_LSP_plugin, handlers, sys_modules, pythonPath,
                        session /\ SessionPossible(_LSP_plugin, sys_modules))
    IN /\ PATH' = deactivate_restore_PATH(platform, rest, removed)
       /\ VIRTUAL_ENV' = deactivate_VIRTUAL_ENV(rest)
       /\ _activated_envs' = deactivate_restore_stack(platform, rest, removed)
       /\ handlers' = n.handlers
       /\ outcome' = [NoOutcome EXCEPT
                        !.raised = n.raised,
                        !.notify_LSP = <<pythonPath>>,
                        !.sent = n.sent,
                        !.status_message =
                            IF n.raised = None
                            THEN Some("Deactivated virtualenv.")
                            ELSE None]
       /\ marks' = MarksOnDeactivate(marks)

deactivate_virtualenv(session) ==
    /\ call' = Call("deactivate_virtualenv", None, Len(_activated_envs) # 0)
    /\ IF Len(_activated_envs) = 0
       THEN deactivate_Empty
       ELSE deactivate_Pop(session)
    /\ UNCHANGED <<platform, _log_level, _LSP_plugin, sys_modules, command, initial_PATH>>

(***************************************************************************)
(* The host: a package finishes loading and its members become importable. *)
(***************************************************************************)
import_module(member) ==
    /\ member \notin sys_modules
    /\ sys_modules' = sys_modules \cup {member}
    /\ call' = Call("import", None, FALSE)
    /\ outcome' = NoOutcome
    /\ marks' = MarksOnOther(marks)
    /\ UNCHANGED <<platform, PATH, VIRTUAL_ENV, _activated_envs, _log_level,
                   _LSP_plugin, handlers, command, initial_PATH>>

(***************************************************************************)
(* Discovery: venv_directories and get_venvs.                              *)
(*   A filesystem is [listdir, isdir]: listdir maps every existing         *)
(*   directory the model lists to its entries in listing order, isdir is   *)
(*   the set of paths that are directories.                                *)
(***************************************************************************)
ListValue(items) == [type |-> "list", items |-> items]
IntValue(v) == [type |-> "int", value |-> v]

\* Mutant of expanduser: "~" is left as written
expanduser_unexpanded(directory) == directory

\* os.path.expanduser on the directory texts of the model
HomeDir == "/home/u"
expanduser(directory) ==
    CASE directory = "~" -> HomeDir
      [] directory = "~/envs" -> HomeDir \o "/envs"
      [] OTHER -> directory

\* The loop of lines 215-220: the str entries, expanded, in order
RECURSIVE venv_directories_validated(_)
venv_directories_validated(directories) ==
    IF directories = <<>> THEN <<>>
    ELSE (IF Head(directories).type = "str"
          THEN <<expanduser(Head(directories).value)>>
          ELSE <<>>) \o venv_directories_validated(Tail(directories))

\* The entries the loop showed an error dialog for, in order
RECURSIVE venv_directories_ignored(_)
venv_directories_ignored(directories) ==
    IF directories = <<>> THEN <<>>
    ELSE (IF Head(directories).type = "str"
          THEN <<>>
          ELSE <<Head(directories)>>) \o venv_directories_ignored(Tail(directories))

\* Mutant of venv_directories: a value that is not a list reads as no roots
venv_directories_lenient(directories) ==
    IF directories.type # "list"
    THEN [raised |-> None, ret |-> <<>>, error_messages |-> <<directories>>]
    ELSE [raised |-> None,
          ret |-> venv_directories_validated(directories.items),
          error_messages |-> venv_directories_ignored(directories.items)]

\* The property venv_directories: [raised, ret, error_messages]
venv_directories(directories) ==
    IF directories.type # "list"
    THEN [raised |-> Some("ValueError"), ret |-> <<>>, error_messages |-> <<>>]
    ELSE [raised |-> None,
          ret |-> venv_directories_validated(directories.items),
          error_messages |-> venv_directories_ignored(directories.items)]

\* {"env": env, "dir": directory} for env in listing if os.path.isdir(...)
RECURSIVE get_venvs_in(_, _, _, _)
get_venvs_in(plat, fs, directory, listing) ==
    IF listing = <<>> THEN <<>>
    ELSE (IF os_path_join(plat, directory, Head(listing)) \in fs.isdir
          THEN <<[env |-> Head(listing), dir |-> directory]>>
          ELSE <<>>) \o get_venvs_in(plat, fs, directory, Tail(listing))

\* The first loop of get_venvs (lines 228-237): os.listdir of a directory
\* that does not exist raises FileNotFoundError, which skips the directory
RECURSIVE get_venvs_roots(_, _, _)
get_venvs_roots(plat, fs, directories) ==
    IF directories = <<>> THEN <<>>
    ELSE (IF Head(directories) \in DOMAIN fs.listdir
          THEN get_venvs_in(plat, fs, Head(directories), fs.listdir[Head(directories)])
          ELSE <<>>) \o get_venvs_roots(plat, fs, Tail(directories))

\* The second loop of get_venvs (lines 239-244)
RECURSIVE get_venvs_folders(_, _, _)
get_venvs_folders(plat, fs, project_folders) ==
    IF project_folders = <<>> THEN <<>>
    ELSE (IF os_path_join(plat, Head(project_folders), ".venv") \in fs.isdir
          THEN <<[env |-> ".venv", dir |-> Head(project_folders)]>>
          ELSE <<>>) \o get_venvs_folders(plat, fs, Tail(project_folders))

\* get_venvs(window): [raised, ret, error_messages]
get_venvs(plat, fs, directories, project_folders) ==
    LET d == venv_directories(directories)
    IN IF d.raised # None
       THEN d
       ELSE [raised |-> None,
             ret |-> get_venvs_roots(plat, fs, d.ret)
                       \o get_venvs_folders(plat, fs, project_folders),
             error_messages |-> d.error_messages]

(***************************************************************************)
(* ActivateVirtualenvCommand.                                              *)
(***************************************************************************)
\* The single item shown when no environment was found
NoVenvsItem == "No virtual environments found"

\* self._venvs after `self._venvs = self._manager.get_venvs(self.window)`
ActivateVirtualenvCommand_stored(venvs) == Some(venvs)

\* run(): the settings hold `directories`, the window has `project_folders`
ActivateVirtualenvCommand_run(fs, directories, project_folders) ==
    LET r == get_venvs(platform, fs, directories, project_folders)
        panel_items == IF r.ret # <<>>
                       THEN [i \in 1..Len(r.ret) |-> r.ret[i].env]
                       ELSE <<NoVenvsItem>>
    IN /\ call' = [name |-> "ActivateVirtualenvCommand.run", selected_venv |-> None,
                   found |-> FALSE, fs |-> fs, directories |-> directories,
                   project_folders |-> project_folders]
       /\ command' = IF r.raised # None
                     THEN [command EXCEPT !.panel_items = None]
                     ELSE [_venvs |-> ActivateVirtualenvCommand_stored(r.ret),
                           panel_items |-> Some(panel_items)]
       /\ outcome' = [error_messages |-> r.error_messages, run_command |-> None]
                        @@ [NoOutcome EXCEPT !.raised = r.raised]
       /\ marks' = MarksOnOther(marks)
       /\ UNCHANGED <<platform, PATH, VIRTUAL_ENV, _activated_envs, _log_level,
                      _LSP_plugin, sys_modules, handlers, initial_PATH>>

\* on_select(index) without a call of the manager: the panel was cancelled,
\* the settings file is opened, or the subscript raises
ActivateVirtualenvCommand_on_select_other(index) ==
    /\ call' = [name |-> "ActivateVirtualenvCommand.on_select", selected_venv |-> None,
                found |-> FALSE, index |-> index]
    /\ outcome' = [error_messages |-> <<>>,
                   run_command |-> IF index # -1 /\ command._venvs = None
                                   THEN Some("open_file") ELSE None]
                    @@ [NoOutcome EXCEPT
                          !.raised = IF index # -1 /\ command._venvs # None
                                     THEN Some("IndexError") ELSE None]
    /\ marks' = MarksOnOther(marks)
    /\ UNCHANGED <<platform, PATH, VIRTUAL_ENV, _activated_envs, _log_level,
                   _LSP_plugin, sys_modules, handlers, command, initial_PATH>>

\* on_select(index), index being -1 or the index of an item of the panel shown
ActivateVirtualenvCommand_on_select(index, exists, session) ==
    /\ command.panel_items # None
    /\ index \in {-1} \cup (0..(Len(command.panel_items[1]) - 1))
    /\ IF index # -1 /\ command._venvs # None /\ index < Len(command._venvs[1])
       THEN activate_virtualenv(command._venvs[1][index + 1], exists, session)
       ELSE ActivateVirtualenvCommand_on_select_other(index)

(***************************************************************************)
(* Spec: activations and deactivations on every host platform and from     *)
(* every starting environment.  The settings are those read at             *)
(* construction; the LSP packages are either all loaded before the manager *)
(* is constructed or never.                                                *)
(***************************************************************************)
Init ==
    InitFrom(HostPlatforms, {StrValue("INFO")}, LSPPluginSettings, InitPaths,
             InitVirtualEnvs, {{}, ImportableMembers})

Next ==
    \/ \E selected_venv \in Venvs, exists \in BOOLEAN, session \in BOOLEAN :
          activate_virtualenv(selected_venv, exists, session)
    \/ \E session \in BOOLEAN : deactivate_virtualenv(session)

Spec == Init /\ [][Next]_vars

(***************************************************************************)
(* SpecLSP: one POSIX host, one starting PATH and one environment to       *)
(* activate; the settings change and the LSP packages load at any time.    *)
(***************************************************************************)
LSPInitPaths == [plat \in Platforms |-> {Some(Str("/usr/bin"))}]
LSPVenvs == {[env |-> "a", dir |-> "/envs"]}

InitLSP ==
    InitFrom({"linux"}, LogLevelSettings, LSPPluginSettings, LSPInitPaths,
             InitVirtualEnvs, {{}})

NextLSP ==
    \/ \E selected_venv \in LSPVenvs, exists \in BOOLEAN, session \in BOOLEAN :
          activate_virtualenv(selected_venv, exists, session)
    \/ \E session \in BOOLEAN : deactivate_virtualenv(session)
    \/ \E level \in LogLevelSettings, LSP_plugin \in LSPPluginSettings,
          session \in BOOLEAN :
          on_settings_changed(level, LSP_plugin, session)
    \/ \E member \in ImportableMembers : import_module(member)

SpecLSP == InitLSP /\ [][NextLSP]_vars

(***************************************************************************)
(* SpecSettings: the settings listener with every kind of value the        *)
(* settings file can hold, on one POSIX host with the LSP packages loaded. *)
(***************************************************************************)
SettingsLogLevels ==
    {StrValue("INFO"), StrValue("DEBUG"), StrValue("debug"), StrValue("NOTSET"),
     StrValue("verbose"), NoneValue}
SettingsLSPPlugins ==
    {StrValue("LSP-pyright"), StrValue("LSP-basedpyright"), StrValue("None"),
     StrValue("LSP-ruff"), NoneValue}

InitSettings ==
    InitFrom({"linux"}, SettingsLogLevels, SettingsLSPPlugins, LSPInitPaths,
             {None}, {ImportableMembers})

NextSettings ==
    \/ \E level \in SettingsLogLevels, LSP_plugin \in SettingsLSPPlugins,
          session \in BOOLEAN :
          on_settings_changed(level, LSP_plugin, session)
    \/ \E selected_venv \in LSPVenvs, session \in BOOLEAN :
          activate_virtualenv(selected_venv, TRUE, session)
    \/ \E session \in BOOLEAN : deactivate_virtualenv(session)

SpecSettings == InitSettings /\ [][NextSettings]_vars

(***************************************************************************)
(* SpecDiscovery: the activate command on one POSIX host: run() lists the  *)
(* environments of a filesystem, on_select() answers the quick panel.      *)
(***************************************************************************)
\* A filesystem with environments and one with none under "/envs"
FileSystemFull ==
    [listdir |-> ("/envs" :> <<"b", "notes.txt", "a">> @@ "/home/u/envs" :> <<"a">>),
     isdir |-> {"/envs/a", "/envs/b", "/home/u/envs/a", "/proj1/.venv", "/proj2/.venv"}]
FileSystemSparse ==
    [listdir |-> ("/envs" :> <<"notes.txt">>),
     isdir |-> {"/proj2/.venv"}]
FileSystems == {FileSystemFull, FileSystemSparse}

\* Values of the environment_directories setting: lists of existing, missing
\* and "~" roots and of entries that are not strings, and values that are not
\* lists; a missing key reads as the empty list
DirectorySettings ==
    {ListValue(<<>>),
     ListValue(<<IntValue("42")>>),
     ListValue(<<StrValue("/envs"), StrValue("~/envs")>>),
     ListValue(<<StrValue("~/envs"), StrValue("/envs")>>),
     ListValue(<<StrValue("/gone"), StrValue("/envs")>>),
     ListValue(<<StrValue("/envs"), StrValue("/envs")>>),
     ListValue(<<IntValue("42"), StrValue("~/envs"), NoneValue>>),
     ListValue(<<StrValue("/envs"), IntValue("42"), StrValue("/gone"), StrValue("~/envs")>>),
     StrValue("/envs"),
     NoneValue}

\* window.folders()
ProjectFolders ==
    {<<>>, <<"/proj1">>, <<"/proj2", "/proj1">>, <<"/proj1", "/proj3", "/proj2">>}

\* Indexes the quick panel can pass to on_select
PanelIndexes == {-1} \cup {i - 1 : i \in 1..8}

InitDiscovery ==
    InitFrom({"linux"}, {StrValue("INFO")}, {NoneValue}, LSPInitPaths, {None}, {{}})

\* The environment selected is activated on an empty stack only
NextDiscovery ==
    \/ \E fs \in FileSystems, directories \in DirectorySettings,
          project_folders \in ProjectFolders :
          ActivateVirtualenvCommand_run(fs, directories, project_folders)
    \/ \E index \in PanelIndexes, exists \in BOOLEAN :
          /\ exists => _activated_envs = <<>>
          /\ ActivateVirtualenvCommand_on_select(index, exists, FALSE)
    \/ deactivate_virtualenv(FALSE)

SpecDiscovery == InitDiscovery /\ [][NextDiscovery]_vars

(***************************************************************************)
(* SpecPATH: activations and deactivations over the search paths a host    *)
(* starts an editor with: several entries, one of them an environment's    *)
(* bin directory, and on Windows entries that begin with a drive letter    *)
(* ("C:\Windows" is the tokens "C", ":", "\Windows").  No plugin is      *)
(* selected.                                                               *)
(***************************************************************************)
PATHInitPaths ==
    [plat \in Platforms |->
        IF plat = "win"
        THEN {None,
              Some(<<"C", ":", "\\Windows">>),
              Some(<<"/usr/bin", ";", "/envs\\a\\bin">>)}
        ELSE {None,
              Some(<<"/usr/bin">>),
              Some(<<"/usr/bin", ":", "/envs/a/bin">>),
              Some(<<"/envs/a/bin", ":", "/usr/bin">>)}]

InitPATH ==
    InitFrom(HostPlatforms, {StrValue("INFO")}, {NoneValue}, PATHInitPaths,
             {None}, {{}})

NextPATH ==
    \/ \E selected_venv \in Venvs, exists \in BOOLEAN :
          activate_virtualenv(selected_venv, exists, FALSE)
    \/ deactivate_virtualenv(FALSE)

SpecPATH == InitPATH /\ [][NextPATH]_vars

(***************************************************************************)
(* Properties.                                                             *)
(***************************************************************************)
\* The entries the operating system reads from PATH
PathEntries(plat, path) ==
    IF path = None \/ path[1] = <<>> THEN <<>> ELSE Split(path[1], os_pathsep(plat))

Count(items, x) == Cardinality({i \in 1..Len(items) : items[i] = x})
Contains(items, x) == \E i \in 1..Len(items) : items[i] = x

\* The record under the top of the stack
Second(s) == s[Len(s) - 1]

\* C1 (as claimed).  Stack law: a deactivate_virtualenv that closes a run of
\* n activations followed by n deactivations leaves PATH and VIRTUAL_ENV as
\* they were before the first of those activations.
C1_StackLaw ==
    [][(/\ call'.name = "deactivate_virtualenv"
        /\ Len(_activated_envs) > 0
        /\ ~Last(marks).broken)
       => /\ PATH' = Last(marks).PATH
          /\ VIRTUAL_ENV' = Last(marks).VIRTUAL_ENV]_vars

\* The stack law of C1 on the hosts whose os.pathsep is ":" alone
StackLawPosix ==
    [][(/\ call'.name = "deactivate_virtualenv"
        /\ platform # "win"
        /\ Len(_activated_envs) > 0
        /\ ~Last(marks).broken)
       => /\ PATH' = Last(marks).PATH
          /\ VIRTUAL_ENV' = Last(marks).VIRTUAL_ENV]_vars

\* C2.  VIRTUAL_ENV mirrors the top of the stack: it is the VIRTUAL_ENV field
\* of the last record, and unset when the stack is empty.
C2_MirrorsTop ==
    IF Len(_activated_envs) > 0
    THEN VIRTUAL_ENV = Some(Last(_activated_envs).VIRTUAL_ENV)
    ELSE VIRTUAL_ENV = None

\* A deactivation gave the variable back to an environment activated earlier
C2_Witness ==
    /\ call.name = "deactivate_virtualenv"
    /\ call.found
    /\ Len(_activated_envs) > 0
    /\ Last(_activated_envs).env # None
    /\ VIRTUAL_ENV = Some(Last(_activated_envs).VIRTUAL_ENV)

\* C3 (as claimed).  No duplicate live entries: when activate_virtualenv
\* prepends the bin path of the new record, PATH holds no entry that a record
\* still on the stack prepended: each such path occurs no more often than
\* before that record was pushed (once more if it is the path just prepended).
C3_NoDuplicateLiveEntries ==
    [][(/\ call'.name = "activate_virtualenv"
        /\ call'.found
        /\ Last(_activated_envs').added_path # None)
       => \A i \in 1..Len(_activated_envs) :
             LET p == _activated_envs[i].added_path
             IN p # None =>
                  Count(PathEntries(platform, PATH'), Str(p[1]))
                    <= Count(PathEntries(platform, marks[i].PATH), Str(p[1]))
                       + (IF p = Last(_activated_envs').added_path THEN 1 ELSE 0)]_vars

\* The same on the hosts whose os.pathsep is ":" alone
NoDuplicateLiveEntriesPosix ==
    [][(/\ call'.name = "activate_virtualenv"
        /\ platform # "win"
        /\ call'.found
        /\ Last(_activated_envs').added_path # None)
       => \A i \in 1..Len(_activated_envs) :
             LET p == _activated_envs[i].added_path
             IN p # None =>
                  Count(PathEntries(platform, PATH'), Str(p[1]))
                    <= Count(PathEntries(platform, marks[i].PATH), Str(p[1]))
                       + (IF p = Last(_activated_envs').added_path THEN 1 ELSE 0)]_vars

\* The bin path of an environment as the claims understand it: the
\* executable subdirectory of the platform, "Scripts" on Windows and "bin"
\* elsewhere
binPath(plat, venvPath) ==
    os_path_join(plat, venvPath, IF plat = "win" THEN "Scripts" ELSE "bin")

\* The bin path of the environment the call named
CallBinPath(c) ==
    binPath(platform,
            os_path_join(platform, c.selected_venv[1].dir, c.selected_venv[1].env))

\* C4 (as claimed).  Idempotence of activation: activating an environment
\* twice in a row, its bin path not in PATH beforehand, leaves one occurrence
\* of the bin path, PATH as the first activation left it, one more record,
\* and the second record without added_path (the first one has it).
C4_ActivateTwice ==
    [][(/\ call.name = "activate_virtualenv" /\ call.found
        /\ call' = call
        /\ ~Contains(PathEntries(platform, Last(marks).PATH), Str(CallBinPath(call))))
       => /\ PATH' = PATH
          /\ Count(PathEntries(platform, PATH'), Str(CallBinPath(call))) = 1
          /\ Len(_activated_envs') = Len(_activated_envs) + 1
          /\ Last(_activated_envs).added_path = Some(CallBinPath(call))
          /\ Last(_activated_envs').added_path = None]_vars

\* The same on the hosts whose os.pathsep is ":" alone
ActivateTwicePosix ==
    [][(/\ platform # "win"
        /\ call.name = "activate_virtualenv" /\ call.found
        /\ call' = call
        /\ ~Contains(PathEntries(platform, Last(marks).PATH), Str(CallBinPath(call))))
       => /\ PATH' = PATH
          /\ Count(PathEntries(platform, PATH'), Str(CallBinPath(call))) = 1
          /\ Len(_activated_envs') = Len(_activated_envs) + 1
          /\ Last(_activated_envs).added_path = Some(CallBinPath(call))
          /\ Last(_activated_envs').added_path = None]_vars

\* C5.  NotFound leaves the state unchanged: an activate_virtualenv of a path
\* that does not exist changes neither the stack nor PATH nor VIRTUAL_ENV,
\* shows the error dialog, and neither calls notify_LSP nor sends an event.
C5_NotFoundUnchanged ==
    [][(call'.name = "activate_virtualenv" /\ ~call'.found)
       => /\ UNCHANGED <<_activated_envs, PATH, VIRTUAL_ENV>>
          /\ outcome'.error_message # None
          /\ outcome'.raised = None
          /\ outcome'.notify_LSP = <<>>
          /\ outcome'.sent = <<>>]_vars

\* A NotFound activation while an environment is active and a plugin selected
C5_Witness ==
    /\ call.name = "activate_virtualenv"
    /\ ~call.found
    /\ outcome.error_message # None
    /\ Len(_activated_envs) > 0
    /\ Last(_activated_envs).added_path # None
    /\ _LSP_plugin # None

\* C6.  deactivate_virtualenv on an empty stack is a no-op: it raises nothing,
\* changes neither the stack nor PATH nor VIRTUAL_ENV, and neither calls
\* notify_LSP nor sends an event.
C6_DeactivateEmptyNoOp ==
    [][(call'.name = "deactivate_virtualenv" /\ Len(_activated_envs) = 0)
       => /\ UNCHANGED <<_activated_envs, PATH, VIRTUAL_ENV>>
          /\ outcome'.raised = None
          /\ outcome'.notify_LSP = <<>>
          /\ outcome'.sent = <<>>]_vars

\* A deactivation found the stack empty, a plugin selected and PATH set
C6_Witness ==
    /\ call.name = "deactivate_virtualenv"
    /\ ~call.found
    /\ Len(_activated_envs) = 0
    /\ PATH # None
    /\ _LSP_plugin # None

\* C7 (as claimed).  Activation postcondition: after a successful
\* activate_virtualenv of {env, dir}, VIRTUAL_ENV is join(dir, env), the first
\* entry of PATH is the environment's bin path, the stack is the old one with
\* the record {env, join(dir, env), added_path = bin path if it was
\* prepended, else absent} on top, and notify_LSP was handed
\* join(bin path, "python"), once.
C7_ActivatePostcondition ==
    [][(call'.name = "activate_virtualenv" /\ call'.found)
       => LET venv == os_path_join(platform, call'.selected_venv[1].dir,
                                   call'.selected_venv[1].env)
              bin == binPath(platform, venv)
              prepended == Count(PathEntries(platform, PATH'), Str(bin))
                             > Count(PathEntries(platform, PATH), Str(bin))
          IN /\ VIRTUAL_ENV' = Some(venv)
             /\ PathEntries(platform, PATH') # <<>>
             /\ Head(PathEntries(platform, PATH')) = Str(bin)
             /\ _activated_envs' =
                    Append(_activated_envs,
                           [env |-> Some(call'.selected_venv[1].env),
                            VIRTUAL_ENV |-> venv,
                            added_path |-> IF prepended THEN Some(bin) ELSE None])
             /\ outcome'.notify_LSP = <<os_path_join(platform, bin, "python")>>]_vars

\* The same on the hosts where the executable subdirectory is "bin"
ActivatePostconditionPosix ==
    [][(platform # "win" /\ call'.name = "activate_virtualenv" /\ call'.found)
       => LET venv == os_path_join(platform, call'.selected_venv[1].dir,
                                   call'.selected_venv[1].env)
              bin == binPath(platform, venv)
              prepended == Count(PathEntries(platform, PATH'), Str(bin))
                             > Count(PathEntries(platform, PATH), Str(bin))
          IN /\ VIRTUAL_ENV' = Some(venv)
             /\ PathEntries(platform, PATH') # <<>>
             /\ Head(PathEntries(platform, PATH')) = Str(bin)
             /\ _activated_envs' =
                    Append(_activated_envs,
                           [env |-> Some(call'.selected_venv[1].env),
                            VIRTUAL_ENV |-> venv,
                            added_path |-> IF prepended THEN Some(bin) ELSE None])
             /\ outcome'.notify_LSP = <<os_path_join(platform, bin, "python")>>]_vars

\* C8 (as claimed).  Nested restore: after activate A, activate B (another
\* environment), deactivate, VIRTUAL_ENV is A's path, B's bin path is not in
\* PATH, A's bin path is its first entry, and PATH is what it was right after
\* the activation of A.
C8_NestedRestore ==
    [][(/\ call'.name = "deactivate_virtualenv"
        /\ call.name = "activate_virtualenv" /\ call.found
        /\ Last(marks).after_activate
        /\ Len(_activated_envs) > 1
        /\ Second(_activated_envs).VIRTUAL_ENV # Last(_activated_envs).VIRTUAL_ENV)
       => /\ VIRTUAL_ENV' = Some(Second(_activated_envs).VIRTUAL_ENV)
          /\ ~Contains(PathEntries(platform, PATH'),
                       Str(binPath(platform, Last(_activated_envs).VIRTUAL_ENV)))
          /\ PathEntries(platform, PATH') # <<>>
          /\ Head(PathEntries(platform, PATH'))
               = Str(binPath(platform, Second(_activated_envs).VIRTUAL_ENV))
          /\ PATH' = Last(marks).PATH]_vars

\* The part of C8 that does not depend on what PATH held before: after
\* activate A, activate B, deactivate on a host whose os.pathsep is ":",
\* VIRTUAL_ENV is A's path, A's bin path is the first entry of PATH, and PATH
\* is what it was right after the activation of A.
NestedRestorePosix ==
    [][(/\ call'.name = "deactivate_virtualenv"
        /\ platform # "win"
        /\ call.name = "activate_virtualenv" /\ call.found
        /\ Last(marks).after_activate
        /\ Len(_activated_envs) > 1
        /\ Second(_activated_envs).VIRTUAL_ENV # Last(_activated_envs).VIRTUAL_ENV)
       => /\ VIRTUAL_ENV' = Some(Second(_activated_envs).VIRTUAL_ENV)
          /\ PathEntries(platform, PATH') # <<>>
          /\ Head(PathEntries(platform, PATH'))
               = Str(binPath(platform, Second(_activated_envs).VIRTUAL_ENV))
          /\ PATH' = Last(marks).PATH]_vars

\* The selected plugin's package and the LSP host's members are importable
PluginLoaded ==
    /\ _LSP_plugin # None
    /\ LSPPluginHandler_required_members \subseteq sys_modules
    /\ LSP_pythonPluginHandler_required_members(_LSP_plugin[1]) \subseteq sys_modules

\* C9 (as claimed).  Best-effort notification: activate_virtualenv and
\* deactivate_virtualenv send an event only when a plugin is selected and
\* loaded; with a plugin selected and not loaded they send nothing, raise
\* nothing and end with their status message.
C9_BestEffort ==
    (call.name \in {"activate_virtualenv", "deactivate_virtualenv"} /\ call.found)
    => /\ outcome.sent # <<>> => PluginLoaded
       /\ (_LSP_plugin # None /\ ~PluginLoaded)
            => (outcome.raised = None /\ outcome.sent = <<>>
                /\ outcome.status_message # None)

\* C10 (as claimed).  Deactivation payload: a deactivate_virtualenv that
\* popped a record called notify_LSP once, with join(bin path of the new
\* top's VIRTUAL_ENV, "python"), or with "" when the stack became empty.
C10_DeactivatePayload ==
    (call.name = "deactivate_virtualenv" /\ call.found)
    => outcome.notify_LSP =
          <<IF Len(_activated_envs) > 0
            THEN os_path_join(platform,
                              binPath(platform, Last(_activated_envs).VIRTUAL_ENV),
                              "python")
            ELSE "">>

\* The same on the hosts where the executable subdirectory is "bin"
DeactivatePayloadPosix ==
    (platform # "win" /\ call.name = "deactivate_virtualenv" /\ call.found)
    => outcome.notify_LSP =
          <<IF Len(_activated_envs) > 0
            THEN os_path_join(platform,
                              binPath(platform, Last(_activated_envs).VIRTUAL_ENV),
                              "python")
            ELSE "">>

\* A settings value the validators do not accept
InvalidLogLevel(v) == ~(v.type = "str" /\ v.value \in valid_log_levels)
InvalidLSPPlugin(v) == ~(v.type = "str" /\ v.value \in valid_LSP_plugins)

\* C11.  Invalid settings are rejected: a settings-change event whose
\* log_level (LSP_plugin) is not valid leaves the cached log level (the
\* selected plugin) as it was, and leaves the stack, PATH and VIRTUAL_ENV
\* unchanged.
C11_InvalidRejected ==
    [][(call'.name = "on_settings_changed")
       => /\ InvalidLogLevel(call'.log_level)
               => (_log_level' = _log_level
                   /\ UNCHANGED <<_activated_envs, PATH, VIRTUAL_ENV>>)
          /\ InvalidLSPPlugin(call'.LSP_plugin)
               => (_LSP_plugin' = _LSP_plugin
                   /\ UNCHANGED <<_activated_envs, PATH, VIRTUAL_ENV>>)]_vars

\* A settings change with both values invalid, while a level and a plugin are
\* cached and an environment is active
C11_Witness ==
    /\ call.name = "on_settings_changed"
    /\ InvalidLogLevel(call.log_level)
    /\ InvalidLSPPlugin(call.LSP_plugin)
    /\ outcome.warnings = <<"log_level", "LSP_plugin">>
    /\ _log_level # None
    /\ _LSP_plugin # None
    /\ Len(_activated_envs) > 0

\* The level name a text selects when letter case is ignored
UpperCase(v) ==
    CASE v = "debug" -> "DEBUG"
      [] v = "verbose" -> "VERBOSE"
      [] OTHER -> v

\* The level names the claim lists
ClaimedLogLevels == {"NOTSET", "DEBUG", "INFO", "WARNING", "ERROR", "CRITICAL"}

\* C12 (as claimed).  Accepted log levels: a log_level that is one of NOTSET,
\* DEBUG, INFO, WARNING, ERROR, CRITICAL in any letter case becomes the cached
\* log level without a warning; every other value is warned about and the
\* cached level stays.
C12_AcceptedLogLevels ==
    [][(call'.name = "on_settings_changed")
       => IF call'.log_level.type = "str"
             /\ UpperCase(call'.log_level.value) \in ClaimedLogLevels
          THEN /\ _log_level' = Some(UpperCase(call'.log_level.value))
               /\ "log_level" \notin {outcome'.warnings[i] : i \in 1..Len(outcome'.warnings)}
          ELSE /\ _log_level' = _log_level
               /\ "log_level" \in {outcome'.warnings[i] : i \in 1..Len(outcome'.warnings)}]_vars

\* C12 (amended).  A log_level that is exactly one of DEBUG, INFO, WARNING,
\* ERROR, CRITICAL (upper case) becomes the cached log level without a
\* warning; every other value, NOTSET and lower-case spellings included, is
\* warned about and the cached level stays.
C12_AcceptedLogLevelsExact ==
    [][(call'.name = "on_settings_changed")
       => IF call'.log_level.type = "str"
             /\ call'.log_level.value \in {"DEBUG", "INFO", "WARNING", "ERROR", "CRITICAL"}
          THEN /\ _log_level' = Some(call'.log_level.value)
               /\ "log_level" \notin {outcome'.warnings[i] : i \in 1..Len(outcome'.warnings)}
          ELSE /\ _log_level' = _log_level
               /\ "log_level" \in {outcome'.warnings[i] : i \in 1..Len(outcome'.warnings)}]_vars

\* A settings change to NOTSET was warned about and left the cached DEBUG
C12_Witness ==
    /\ call.name = "on_settings_changed"
    /\ call.log_level = StrValue("NOTSET")
    /\ _log_level = Some("DEBUG")
    /\ outcome.warnings # <<>>

\* Concatenation of a sequence of sequences
RECURSIVE Flatten(_)
Flatten(seqs) == IF seqs = <<>> THEN <<>> ELSE Head(seqs) \o Flatten(Tail(seqs))

\* The configured roots: the entries that are strings, "~" expanded, in order
ClaimedRoots(items) ==
    LET IsStr(e) == e.type = "str"
        strs == SelectSeq(items, IsStr)
    IN [i \in 1..Len(strs) |->
          IF strs[i].value = "~/envs" THEN "/home/u/envs" ELSE strs[i].value]

\* The descriptors of one root: its immediate subdirectories in listing order
ClaimedOfRoot(fs, root) ==
    IF root \in DOMAIN fs.listdir
    THEN LET IsDir(e) == (root \o "/" \o e) \in fs.isdir
             subdirs == SelectSeq(fs.listdir[root], IsDir)
         IN [i \in 1..Len(subdirs) |-> [env |-> subdirs[i], dir |-> root]]
    ELSE <<>>

\* What the claims say get_venvs returns for a list of entries
ClaimedVenvs(fs, items, project_folders) ==
    LET roots == ClaimedRoots(items)
        HasVenv(folder) == (folder \o "/.venv") \in fs.isdir
        hits == SelectSeq(project_folders, HasVenv)
    IN Flatten([i \in 1..Len(roots) |-> ClaimedOfRoot(fs, roots[i])])
         \o [i \in 1..Len(hits) |-> [env |-> ".venv", dir |-> hits[i]]]

\* C13.  Discovery result and order: with environment_directories a list,
\* get_venvs raises nothing and returns, root by root in configuration order,
\* one descriptor per immediate subdirectory in listing order (nothing for a
\* root that does not exist), then one ".venv" descriptor per project folder
\* that has a .venv directory, in folder order, and nothing else.
C13_DiscoveryOrder ==
    (call.name = "ActivateVirtualenvCommand.run" /\ call.directories.type = "list")
    => /\ outcome.raised = None
       /\ command._venvs =
            Some(ClaimedVenvs(call.fs, call.directories.items, call.project_folders))

\* A listing of two roots with subdirectories, a root that does not exist and
\* two project folders with a .venv around one without
C13_Witness ==
    /\ call.name = "ActivateVirtualenvCommand.run"
    /\ call.directories =
         ListValue(<<StrValue("/envs"), IntValue("42"), StrValue("/gone"), StrValue("~/envs")>>)
    /\ call.project_folders = <<"/proj1", "/proj3", "/proj2">>
    /\ command._venvs =
         Some(<<[env |-> "b", dir |-> "/envs"], [env |-> "a", dir |-> "/envs"],
                [env |-> "a", dir |-> "/home/u/envs"],
                [env |-> ".venv", dir |-> "/proj1"], [env |-> ".venv", dir |-> "/proj2"]>>)

\* environment_directories has an entry that is not a string
HasInvalidEntry(directories) ==
    directories.type = "list"
    /\ \E i \in 1..Len(directories.items) : directories.items[i].type # "str"

\* C14 (as claimed).  Discovery tolerates invalid configuration: when
\* environment_directories is not a list, or has an entry that is not a
\* string, the problem is reported to the user, the offending entry is
\* skipped and get_venvs still returns the descriptors of the valid roots and
\* the project-folder hits.
C14_ToleratesInvalid ==
    (/\ call.name = "ActivateVirtualenvCommand.run"
     /\ (call.directories.type # "list" \/ HasInvalidEntry(call.directories)))
    => /\ outcome.raised = None
       /\ outcome.error_messages # <<>>
       /\ command._venvs =
            Some(ClaimedVenvs(call.fs,
                              IF call.directories.type = "list"
                              THEN call.directories.items ELSE <<>>,
                              call.project_folders))

\* C14 (amended).  An entry of environment_directories that is not a string
\* is reported in an error dialog and skipped, and get_venvs returns the
\* descriptors of the other roots and the project-folder hits; a value that
\* is not a list makes get_venvs raise ValueError: no dialog, no quick panel.
C14_ToleratesInvalidEntries ==
    (call.name = "ActivateVirtualenvCommand.run")
    => IF call.directories.type # "list"
       THEN /\ outcome.raised = Some("ValueError")
            /\ outcome.error_messages = <<>>
            /\ command.panel_items = None
       ELSE /\ outcome.raised = None
            /\ LET NotStr(e) == e.type # "str"
               IN outcome.error_messages = SelectSeq(call.directories.items, NotStr)
            /\ command._venvs =
                 Some(ClaimedVenvs(call.fs, call.directories.items, call.project_folders))

\* A listing that skipped two entries and still found an environment
C14_Witness ==
    /\ call.name = "ActivateVirtualenvCommand.run"
    /\ call.directories = ListValue(<<IntValue("42"), StrValue("~/envs"), NoneValue>>)
    /\ outcome.error_messages = <<IntValue("42"), NoneValue>>
    /\ command._venvs # None
    /\ command._venvs[1] # <<>>

\* C15 (as claimed).  Activate command with no environments: the quick panel
\* showing the single placeholder item, selecting it (index 0) opens the
\* settings file, cancelling (index -1) does nothing, and neither raises nor
\* calls activate_virtualenv.
C15_NoEnvironments ==
    (/\ call.name = "ActivateVirtualenvCommand.on_select"
     /\ command.panel_items = Some(<<NoVenvsItem>>))
    => /\ outcome.raised = None
       /\ call.index = 0 => outcome.run_command = Some("open_file")
       /\ call.index = -1 => outcome.run_command = None

\* C16 (as claimed).  Platform-specific bin path: get_bin_path is
\* join(venvPath, "Scripts") on Windows and join(venvPath, "bin") elsewhere,
\* and a successful activate_virtualenv records that path as the entry it
\* prepended and hands its "python" to notify_LSP.
C16_PlatformBinPath ==
    (call.name = "activate_virtualenv" /\ call.found)
    => /\ get_bin_path(platform, Last(_activated_envs).VIRTUAL_ENV) = CallBinPath(call)
       /\ Last(_activated_envs).added_path \in {None, Some(CallBinPath(call))}
       /\ outcome.notify_LSP = <<get_python_path(platform, CallBinPath(call))>>

\* The same on the hosts that are not Windows
PlatformBinPathPosix ==
    (platform # "win" /\ call.name = "activate_virtualenv" /\ call.found)
    => /\ get_bin_path(platform, Last(_activated_envs).VIRTUAL_ENV) = CallBinPath(call)
       /\ Last(_activated_envs).added_path \in {None, Some(CallBinPath(call))}
       /\ outcome.notify_LSP = <<get_python_path(platform, CallBinPath(call))>>

\* C17.  Stack lifecycle: the stack starts empty when VIRTUAL_ENV was unset
\* and otherwise with the one record {env absent, added_path absent,
\* VIRTUAL_ENV inherited}; every successful activate_virtualenv appends one
\* named record, every deactivate_virtualenv on a non-empty stack removes the
\* last one; a record without a name is the bottom one and has no added_path.
C17_StackLifecycle ==
    /\ _activated_envs =
         IF VIRTUAL_ENV = None
         THEN <<>>
         ELSE <<[env |-> None, added_path |-> None, VIRTUAL_ENV |-> VIRTUAL_ENV[1]]>>
    /\ [][/\ (call'.name = "activate_virtualenv" /\ call'.found)
               => /\ Len(_activated_envs') = Len(_activated_envs) + 1
                  /\ Last(_activated_envs').env = Some(call'.selected_venv[1].env)
                  /\ \A i \in 1..Len(_activated_envs) :
                        /\ _activated_envs'[i].env = _activated_envs[i].env
                        /\ _activated_envs'[i].VIRTUAL_ENV = _activated_envs[i].VIRTUAL_ENV
          /\ (call'.name = "deactivate_virtualenv" /\ Len(_activated_envs) > 0)
               => /\ Len(_activated_envs') = Len(_activated_envs) - 1
                  /\ \A i \in 1..Len(_activated_envs') :
                        /\ _activated_envs'[i].env = _activated_envs[i].env
                        /\ _activated_envs'[i].VIRTUAL_ENV = _activated_envs[i].VIRTUAL_ENV]_vars
    /\ [](\A i \in 1..Len(_activated_envs) :
             _activated_envs[i].env = None
               => (i = 1 /\ _activated_envs[i].added_path = None))

\* Two environments activated over an inherited VIRTUAL_ENV, one deactivated
C17_Witness ==
    /\ call.name = "deactivate_virtualenv"
    /\ call.found
    /\ Len(_activated_envs) = 2
    /\ _activated_envs[1].env = None
    /\ _activated_envs[1].added_path = None
    /\ _activated_envs[2].env # None

\* The entries of the search path when deactivate_virtualenv attempts the
\* re-add: those of PATH without the first occurrence of the popped record's
\* entry
EntriesAtReadd(plat, path, popped) ==
    LET entries == PathEntries(plat, path)
    IN IF popped.added_path # None /\ Contains(entries, Str(popped.added_path[1]))
       THEN LET i == CHOOSE i \in 1..Len(entries) :
                        /\ entries[i] = Str(popped.added_path[1])
                        /\ \A j \in 1..(i - 1) : entries[j] # Str(popped.added_path[1])
            IN SubSeq(entries, 1, i - 1) \o SubSeq(entries, i + 1, Len(entries))
       ELSE entries

\* C18 (as claimed).  Re-add bookkeeping on deactivate: when
\* deactivate_virtualenv leaves a stack whose new top has an added_path, that
\* entry is the first of the search path afterwards, and the new top's
\* added_path is cleared if the entry was already the first one when the
\* re-add was attempted.
C18_ReaddBookkeeping ==
    [][(/\ call'.name = "deactivate_virtualenv"
        /\ Len(_activated_envs) > 1
        /\ Second(_activated_envs).added_path # None)
       => LET p == Str(Second(_activated_envs).added_path[1])
              before == EntriesAtReadd(platform, PATH, Last(_activated_envs))
          IN /\ PathEntries(platform, PATH') # <<>>
             /\ PathEntries(platform, PATH')[1] = p
             /\ (before # <<>> /\ before[1] = p)
                   => Last(_activated_envs').added_path = None]_vars

\* The same on the hosts whose os.pathsep is ":" alone
ReaddBookkeepingPosix ==
    [][(/\ platform # "win"
        /\ call'.name = "deactivate_virtualenv"
        /\ Len(_activated_envs) > 1
        /\ Second(_activated_envs).added_path # None)
       => LET p == Str(Second(_activated_envs).added_path[1])
              before == EntriesAtReadd(platform, PATH, Last(_activated_envs))
          IN /\ PathEntries(platform, PATH') # <<>>
             /\ PathEntries(platform, PATH')[1] = p
             /\ (before # <<>> /\ before[1] = p)
                   => Last(_activated_envs').added_path = None]_vars

\* C19 (as claimed).  Selecting no plugin takes effect: after a settings
\* change in which LSP_plugin is "None" the selected plugin is none, and the
\* activate_virtualenv or deactivate_virtualenv that follows sends no event.
C19_SelectingNone ==
    /\ []((call.name = "on_settings_changed" /\ call.LSP_plugin = StrValue("None"))
             => _LSP_plugin = None)
    /\ [][(/\ call.name = "on_settings_changed"
           /\ call.LSP_plugin = StrValue("None")
           /\ call'.name \in {"activate_virtualenv", "deactivate_virtualenv"})
          => outcome'.sent = <<>>]_vars

\* The part of C19 about the events alone
SelectingNoneSendsNothing ==
    [][(/\ call.name = "on_settings_changed"
        /\ call.LSP_plugin = StrValue("None")
        /\ call'.name \in {"activate_virtualenv", "deactivate_virtualenv"})
       => outcome'.sent = <<>>]_vars

\* C20.  Availability is resolved once: once LSPPluginHandler has evaluated
\* its availability, the cached result and the cached members never change,
\* and a later check returns that result whatever the loaded-module registry
\* holds by then; the same for two checks in a row of the constructed
\* LSP_pythonPluginHandler.
C20_ResolvedOnce ==
    /\ [](\A later \in SUBSET Members :
            /\ handlers.LSPPluginHandler # None
                 => LET h == handlers.LSPPluginHandler[1]
                        r == OptionalPluginHandler_is_plugin_available(
                                 h, handlers._cached_classes,
                                 LSPPluginHandler_required_members, later)
                    IN /\ h._is_available # None
                       /\ r.ret = h._is_available[1]
                       /\ r.h = h
                       /\ r.cached = handlers._cached_classes
            /\ handlers.LSP_pythonPluginHandler # None
                 => LET first == LSP_pythonPluginHandler_is_plugin_available(
                                     handlers, sys_modules)
                        second == LSP_pythonPluginHandler_is_plugin_available(
                                      first.handlers, later)
                    IN /\ second.ret = first.ret
                       /\ second.handlers = first.handlers)
    /\ [][handlers.LSPPluginHandler # None
            => /\ handlers'.LSPPluginHandler = handlers.LSPPluginHandler
               /\ \A k \in LSPPluginHandler_required_members :
                     handlers'._cached_classes[k] = handlers._cached_classes[k]]_vars

\* The LSP host finished loading after the check that found it missing, and
\* the activation that followed still failed on the cached result
C20_Witness ==
    /\ handlers.LSPPluginHandler = Some([_is_available |-> Some(FALSE)])
    /\ LSPPluginHandler_required_members \subseteq sys_modules
    /\ call.name = "activate_virtualenv"
    /\ call.found
    /\ outcome.raised = Some("RuntimeError")

\* C21 (as claimed).  Top entry is at the head: when the top record of the
\* stack has an added_path, that value is the first entry of the search path
\* and is the bin path of the top record's VIRTUAL_ENV.
C21_TopAtHead ==
    (Len(_activated_envs) > 0 /\ Last(_activated_envs).added_path # None)
    => /\ PathEntries(platform, PATH) # <<>>
       /\ PathEntries(platform, PATH)[1] = Str(Last(_activated_envs).added_path[1])
       /\ Last(_activated_envs).added_path
            = Some(binPath(platform, Last(_activated_envs).VIRTUAL_ENV))

\* The same on the hosts that are not Windows
TopAtHeadPosix ==
    (platform # "win" /\ Len(_activated_envs) > 0 /\ Last(_activated_envs).added_path # None)
    => /\ PathEntries(platform, PATH) # <<>>
       /\ PathEntries(platform, PATH)[1] = Str(Last(_activated_envs).added_path[1])
       /\ Last(_activated_envs).added_path
            = Some(binPath(platform, Last(_activated_envs).VIRTUAL_ENV))

\* The part of C21 about the position in the search path, on every host
TopAtHeadPosition ==
    (Len(_activated_envs) > 0 /\ Last(_activated_envs).added_path # None)
    => /\ PathEntries(platform, PATH) # <<>>
       /\ PathEntries(platform, PATH)[1] = Str(Last(_activated_envs).added_path[1])

\* s is the end of t
IsSuffix(s, t) ==
    Len(s) <= Len(t) /\ SubSeq(t, Len(t) - Len(s) + 1, Len(t)) = s

\* C22 (as claimed).  Pre-existing entries are never touched: the entries of
\* the search path the manager was constructed with are the end of the
\* current search path, unchanged and in the same order.
C22_PreexistingUntouched ==
    IsSuffix(PathEntries(platform, initial_PATH), PathEntries(platform, PATH))

\* The same on the hosts whose os.pathsep is ":" alone
PreexistingUntouchedPosix ==
    platform # "win"
    => IsSuffix(PathEntries(platform, initial_PATH), PathEntries(platform, PATH))

\* entries without the first occurrence of x
WithoutFirst(entries, x) ==
    IF Contains(entries, x)
    THEN LET i == CHOOSE i \in 1..Len(entries) :
                     entries[i] = x /\ \A j \in 1..(i - 1) : entries[j] # x
         IN SubSeq(entries, 1, i - 1) \o SubSeq(entries, i + 1, Len(entries))
    ELSE entries

\* The entries add_to_PATH and remove_first_occurrence_in_PATH are called
\* with: the bin directories of the environments
BinEntries(plat) ==
    {get_bin_path(plat, os_path_join(plat, v.dir, v.env)) : v \in Venvs}

\* The separator law for one entry e and the PATH of the state
SeparatorLaw(e) ==
    LET before == PathEntries(platform, PATH)
        added == add_to_PATH(platform, PATH, e)
        removed == remove_first_occurrence_in_PATH(platform, PATH, e)
    IN /\ IF added.ret
          THEN PathEntries(platform, added.PATH) = <<Str(e)>> \o before
          ELSE added.PATH = PATH /\ before # <<>> /\ before[1] = Str(e)
       /\ IF removed.ret
          THEN PathEntries(platform, removed.PATH) = WithoutFirst(before, Str(e))
          ELSE removed.PATH = PATH /\ ~Contains(before, Str(e))
       /\ (PATH # None /\ added.ret)
            => remove_first_occurrence_in_PATH(platform, added.PATH, e).PATH = PATH

\* C23 (as claimed).  Separator consistency: on every platform, add_to_PATH
\* and remove_first_occurrence_in_PATH leave the list of entries as it was
\* but for the one entry prepended or removed, and add_to_PATH followed by
\* remove_first_occurrence_in_PATH of the same entry restores the PATH string.
C23_SeparatorConsistency ==
    \A e \in BinEntries(platform) : SeparatorLaw(e)

\* The same on the hosts whose os.pathsep is ":" alone
SeparatorConsistencyPosix ==
    platform # "win" => \A e \in BinEntries(platform) : SeparatorLaw(e)

====
